---- MODULE Spec2Model ----
(***************************************************************************)
(* df-sol: workspace scaffolding (src/src/lib.rs, src/src/rust_template.rs) *)
(*                                                                         *)
(* Four specifications over one set of variables:                          *)
(*   SpecName  the name normalisation at the head of init (lib.rs:89-107)  *)
(*   SpecMat   the file materialiser, create_files and                     *)
(*             override_or_create_files (lib.rs:203-246)                   *)
(*   SpecKey   the keypair cache and the program's file list               *)
(*             (rust_template.rs:29-71, 417-429), in two worlds at once    *)
(*   Spec      the init orchestrator (lib.rs:80-191), run after run on one *)
(*             disk                                                        *)
(*                                                                         *)
(* A string of the program is a sequence of one-character strings; a path  *)
(* is a sequence of components, each component a sequence of tokens (one   *)
(* character, or a dot-free run of characters such as "toml").             *)
(***************************************************************************)
EXTENDS Integers, Sequences, FiniteSets, TLC

VARIABLES
    n_raw,      \* SpecName: the raw name handed to the normaliser
    n_out,      \* SpecName: the normaliser's outcome, NoOutcome before it ran
    syn_extra,  \* does the linked syn release reserve async/await/try itself
    disk,       \* the filesystem: existing path -> node
    m_files,    \* SpecMat: the entry list (Files) handed to the materialiser
    m_op,       \* SpecMat: "create" (create_files) or "override"
    m_pc,       \* SpecMat: "idle" or "loop" (inside the for loop)
    m_idx,      \* SpecMat: index of the entry the loop reaches next
    m_log,      \* SpecMat: what the running call did at each entry so far
    m_start,    \* SpecMat: the disk when the running call began
    m_hist,     \* SpecMat: the finished calls, oldest first
    pc,         \* Spec: init's position ("idle": no process is running)
    args,       \* Spec: the arguments of the running init
    names,      \* Spec: its rust_name and project_name (lib.rs:90-95)
    program_id, \* Spec: its program_id (lib.rs:118)
    cwd,        \* Spec: the working directory of the running process
    result,     \* Spec: "none" while running, then "Ok" or the error
    trace,      \* Spec: the steps with a side effect the run has taken so far
    run_start,  \* Spec: the disk when the run began
    made_root,  \* Spec: the project names an earlier run made the root of
    scaffolded, \* Spec: the project names an earlier run built a program for
    runs,       \* Spec: the number of finished runs
    k_disk,     \* SpecKey: the disks of two separate worlds
    k_log       \* SpecKey: the calls made so far, each with its outcome per world

nameVars == <<n_raw, n_out, syn_extra>>
matVars == <<m_files, m_op, m_pc, m_idx, m_log, m_start, m_hist>>
initVars == <<pc, args, names, program_id, cwd, result, trace, run_start, made_root,
              scaffolded, runs>>
keyVars == <<k_disk, k_log>>

----------------------------------------------------------------------------
(* Characters.  char::is_lowercase / is_uppercase / is_alphanumeric and     *)
(* unicode XID classes, on the characters the model uses.                   *)

LowerChars ==
    {"a","b","c","d","e","f","g","h","i","j","k","l","m",
     "n","o","p","q","r","s","t","u","v","w","x","y","z"}

UpperChars == {"A","C","H","L","M","N","S","T","X","Y"}

DigitChars == {"1"}

\* "sup2" stands for U+00B2 (superscript two): numeric, hence alphanumeric
\* for heck, but not XID_Continue, hence illegal in a Rust identifier.
OtherAlnumChars == {"sup2"}

\* Not alphanumeric: heck treats every such character as a word separator.
SeparatorChars == {"-", "_", " ", "!"}

IsLower(c) == c \in LowerChars
IsUpper(c) == c \in UpperChars
IsAlphanumeric(c) == c \in LowerChars \cup UpperChars \cup DigitChars \cup OtherAlnumChars

ToLowerChar(c) ==
    CASE c = "A" -> "a" [] c = "C" -> "c" [] c = "H" -> "h" [] c = "L" -> "l"
      [] c = "M" -> "m" [] c = "N" -> "n" [] c = "S" -> "s" [] c = "T" -> "t"
      [] c = "X" -> "x" [] c = "Y" -> "y" [] OTHER -> c

ToLowercase(w) == [i \in 1..Len(w) |-> ToLowerChar(w[i])]

----------------------------------------------------------------------------
(* heck::transform, the engine of to_snake_case and to_kebab_case, as       *)
(* called at lib.rs:90 and lib.rs:94.                                       *)

\* s.split(|c| !c.is_alphanumeric()): the maximal alphanumeric runs, in order
\* (the empty pieces of the split produce no word and are dropped here).
RECURSIVE SplitNonAlnum(_, _, _)
SplitNonAlnum(s, i, cur) ==
    IF i > Len(s)
    THEN IF cur = <<>> THEN <<>> ELSE <<cur>>
    ELSE IF IsAlphanumeric(s[i])
         THEN SplitNonAlnum(s, i + 1, Append(cur, s[i]))
         ELSE (IF cur = <<>> THEN <<>> ELSE <<cur>>) \o SplitNonAlnum(s, i + 1, <<>>)

\* The scan of one alphanumeric run: a boundary after a lowercase-mode
\* character followed by an uppercase one, and before the last capital of an
\* acronym followed by a lowercase character.  mode is "B", "L" or "U".
RECURSIVE CaseSplit(_, _, _, _)
CaseSplit(w, i, init, mode) ==
    IF i > Len(w) THEN <<>>
    ELSE IF i = Len(w) THEN <<SubSeq(w, init, Len(w))>>
    ELSE LET c == w[i]
             next == w[i + 1]
             next_mode == IF IsLower(c) THEN "L" ELSE IF IsUpper(c) THEN "U" ELSE mode
         IN  IF next_mode = "L" /\ IsUpper(next)
             THEN <<SubSeq(w, init, i)>> \o CaseSplit(w, i + 1, i + 1, "B")
             ELSE IF mode = "U" /\ IsUpper(c) /\ IsLower(next)
                  THEN <<SubSeq(w, init, i - 1)>> \o CaseSplit(w, i + 1, i, "B")
                  ELSE CaseSplit(w, i + 1, init, next_mode)

RECURSIVE FlatCaseSplit(_)
FlatCaseSplit(ws) ==
    IF ws = <<>> THEN <<>>
    ELSE CaseSplit(Head(ws), 1, 1, "B") \o FlatCaseSplit(Tail(ws))

HeckWords(s) == FlatCaseSplit(SplitNonAlnum(s, 1, <<>>))

RECURSIVE JoinLower(_, _)
JoinLower(ws, sep) ==
    IF ws = <<>> THEN <<>>
    ELSE IF Len(ws) = 1 THEN ToLowercase(Head(ws))
    ELSE ToLowercase(Head(ws)) \o <<sep>> \o JoinLower(Tail(ws), sep)

to_snake_case(s) == JoinLower(HeckWords(s), "_")
to_kebab_case(s) == JoinLower(HeckWords(s), "-")

----------------------------------------------------------------------------
(* syn::parse_str::<syn::Ident>, as called at lib.rs:101.                   *)

\* The words syn refuses as an identifier in every release.
SynKeywords == {
    <<"a","b","s","t","r","a","c","t">>, <<"a","s">>, <<"b","e","c","o","m","e">>,
    <<"b","o","x">>, <<"b","r","e","a","k">>, <<"c","o","n","s","t">>,
    <<"c","o","n","t","i","n","u","e">>, <<"c","r","a","t","e">>, <<"d","o">>, <<"d","y","n">>,
    <<"e","l","s","e">>, <<"e","n","u","m">>, <<"e","x","t","e","r","n">>,
    <<"f","a","l","s","e">>, <<"f","i","n","a","l">>, <<"f","n">>, <<"f","o","r">>,
    <<"i","f">>, <<"i","m","p","l">>, <<"i","n">>, <<"l","e","t">>, <<"l","o","o","p">>,
    <<"m","a","c","r","o">>, <<"m","a","t","c","h">>, <<"m","o","d">>, <<"m","o","v","e">>,
    <<"m","u","t">>, <<"o","v","e","r","r","i","d","e">>, <<"p","r","i","v">>, <<"p","u","b">>,
    <<"r","e","f">>, <<"r","e","t","u","r","n">>, <<"S","e","l","f">>, <<"s","e","l","f">>,
    <<"s","t","a","t","i","c">>, <<"s","t","r","u","c","t">>, <<"s","u","p","e","r">>,
    <<"t","r","a","i","t">>, <<"t","r","u","e">>, <<"t","y","p","e">>,
    <<"t","y","p","e","o","f">>, <<"u","n","s","a","f","e">>, <<"u","n","s","i","z","e","d">>,
    <<"u","s","e">>, <<"v","i","r","t","u","a","l">>, <<"w","h","e","r","e">>,
    <<"w","h","i","l","e">>, <<"y","i","e","l","d">>, <<"_">> }

\* lib.rs:99: the words the code blocks itself because the syn release in
\* use may not reserve them yet.
extra_keywords == { <<"a","s","y","n","c">>, <<"a","w","a","i","t">>, <<"t","r","y">> }

IsXidStart(c) == c \in LowerChars \cup UpperChars
IsXidContinue(c) == c \in LowerChars \cup UpperChars \cup DigitChars \cup {"_"}

\* The lexical shape of one identifier token.
IsIdentShape(s) ==
    /\ Len(s) >= 1
    /\ IsXidStart(s[1]) \/ s[1] = "_"
    /\ \A i \in 2..Len(s) : IsXidContinue(s[i])

\* hasExtra: whether this syn release already reserves async, await and try.
SynParseIdentOk(s, hasExtra) ==
    /\ IsIdentShape(s)
    /\ s \notin SynKeywords
    /\ hasExtra => s \notin extra_keywords

----------------------------------------------------------------------------
(* The head of init: lib.rs:89-107.                                         *)

RustName(name) == to_snake_case(name)

MutProjectNameAlwaysKebab(name) == to_kebab_case(name)

\* lib.rs:91-95
ProjectName(name) ==
    IF name = RustName(name) THEN RustName(name) ELSE to_kebab_case(name)

MutNameRejectedNoBlocklist(name, hasExtra) == ~SynParseIdentOk(RustName(name), hasExtra)

MutNameRejectedRaw(name, hasExtra) ==
    \/ ~SynParseIdentOk(name, hasExtra)
    \/ RustName(name) \in extra_keywords

\* lib.rs:101-107: the condition under which init returns the
\* "must be a valid Rust identifier" error.
NameRejected(name, hasExtra) ==
    \/ ~SynParseIdentOk(RustName(name), hasExtra)
    \/ RustName(name) \in extra_keywords

Normalize(name, hasExtra) ==
    [ rust_name    |-> RustName(name),
      project_name |-> ProjectName(name),
      res          |-> IF NameRejected(name, hasExtra) THEN "InvalidIdentifier" ELSE "Ok" ]

----------------------------------------------------------------------------
(* SpecName: the normaliser applied to every raw name of a bounded set.     *)

MaxNameLen == 3

NameAlphabet == {"a", "s", "A", "1", "-", "_", "!", "sup2"}

RECURSIVE SeqsUpTo(_, _)
SeqsUpTo(S, n) ==
    IF n = 0 THEN {<<>>}
    ELSE LET shorter == SeqsUpTo(S, n - 1)
         IN  shorter \cup {Append(s, c) : s \in {t \in shorter : Len(t) = n - 1}, c \in S}

FixtureNames == {
    <<"m","y"," ","p","r","o","j","e","c","t","!">>,
    <<"m","y","-","a","p","p">>,
    <<"m","y","_","a","p","p">>,
    <<"M","y","A","p","p">>,
    <<"m","y","A","p","p">>,
    <<"A","p","p">>,
    <<"X","M","L","H","t","t","p">>,
    <<"t","r","y">>, <<"T","r","y">>, <<"t","r","y","!">>, <<"t","r","-","y">>,
    <<"a","s","y","n","c">>, <<"A","S","Y","N","C">>, <<"a","-","s","y","n","c">>,
    <<"a","w","a","i","t">>, <<"a","_","w","a","i","t">>, <<"A","w","a","i","t">>,
    <<"f","n">>, <<"s","e","l","f">>,
    <<"1","a","p","p">>, <<"a","p","p","1">>, <<"_","a","p","p">>,
    <<"a","sup2","b">> }

Names == SeqsUpTo(NameAlphabet, MaxNameLen) \cup FixtureNames

NoOutcome == [rust_name |-> <<>>, project_name |-> <<>>, res |-> "none"]

\* The materialiser at rest, for the specifications that do not run it.
MatAtRest ==
    /\ m_files = <<>>
    /\ m_op = "none"
    /\ m_pc = "idle"
    /\ m_idx = 0
    /\ m_log = <<>>
    /\ m_start = <<>>
    /\ m_hist = <<>>

\* No keypair call, for the specifications that make none of their own.
KeyAtRest ==
    /\ k_disk = <<>>
    /\ k_log = <<>>

NoArgs ==
    [name |-> <<>>, javascript |-> FALSE, no_install |-> FALSE, no_git |-> FALSE,
     template |-> "Basic", force |-> FALSE]

NoNames == [rust_name |-> <<>>, project_name |-> <<>>]

\* No init process, for the specifications that do not run one.
InitAtRest ==
    /\ pc = "idle"
    /\ args = NoArgs
    /\ names = NoNames
    /\ program_id = "none"
    /\ cwd = <<>>
    /\ result = "none"
    /\ trace = <<>>
    /\ run_start = <<>>
    /\ made_root = {}
    /\ scaffolded = {}
    /\ runs = 0

NameInit ==
    /\ n_raw \in Names
    /\ n_out = NoOutcome
    /\ syn_extra \in BOOLEAN
    /\ disk = <<>>
    /\ MatAtRest
    /\ InitAtRest
    /\ KeyAtRest

\* init's name handling on n_raw.
NormalizeName ==
    /\ n_out.res = "none"
    /\ n_out' = Normalize(n_raw, syn_extra)
    /\ UNCHANGED <<n_raw, syn_extra, disk, matVars, initVars, keyVars>>

NameNext == NormalizeName

vars == <<nameVars, disk, matVars, initVars, keyVars>>

SpecName == NameInit /\ [][NameNext]_vars

----------------------------------------------------------------------------
(* The filesystem.  A node is a directory or a regular file with content;   *)
(* the directory the relative paths start from is the empty path and always *)
(* exists.  Every std::fs call returns [ok, disk]; a failed call leaves the *)
(* disk as it was.                                                          *)

DirNode == [kind |-> "dir", content |-> <<>>]
FileNode(c) == [kind |-> "file", content |-> c]

Parent(p) == SubSeq(p, 1, Len(p) - 1)
IsPrefix(p, q) == Len(p) <= Len(q) /\ SubSeq(q, 1, Len(p)) = p
Ancestors(p) == {SubSeq(p, 1, k) : k \in 1..(Len(p) - 1)}

\* Path::exists
Exists(d, p) == p \in DOMAIN d
IsDir(d, p) == p = <<>> \/ (p \in DOMAIN d /\ d[p].kind = "dir")
IsFile(d, p) == p \in DOMAIN d /\ d[p].kind = "file"

\* Path::extension on the last component: the part after the last dot,
\* none when there is no dot or the only dot leads the file name.
HasExtension(p) ==
    /\ p # <<>>
    /\ LET name == p[Len(p)]
       IN  \E i \in 2..Len(name) : name[i] = "."

Put(d, p, node) == [q \in DOMAIN d \cup {p} |-> IF q = p THEN node ELSE d[q]]

\* fs::create_dir_all: every missing component becomes a directory; fails
\* when a component of the path is a regular file.
create_dir_all(d, p) ==
    IF \E k \in 1..Len(p) : IsFile(d, SubSeq(p, 1, k))
    THEN [ok |-> FALSE, disk |-> d]
    ELSE [ok |-> TRUE,
          disk |-> LET new == {SubSeq(p, 1, k) : k \in 1..Len(p)} \ DOMAIN d
                   IN  [q \in DOMAIN d \cup new |-> IF q \in new THEN DirNode ELSE d[q]]]

\* fs::create_dir: fails when the path exists or its parent is no directory.
create_dir(d, p) ==
    IF p = <<>> \/ Exists(d, p) \/ ~IsDir(d, Parent(p))
    THEN [ok |-> FALSE, disk |-> d]
    ELSE [ok |-> TRUE, disk |-> Put(d, p, DirNode)]

\* fs::write and File::create + write_all: create or truncate, then write.
fs_write(d, p, c) ==
    IF p = <<>> \/ IsDir(d, p) \/ ~IsDir(d, Parent(p))
    THEN [ok |-> FALSE, disk |-> d]
    ELSE [ok |-> TRUE, disk |-> Put(d, p, FileNode(c))]

MutOpenTruncWriteNoTruncate(d, p, c) ==
    IF ~IsFile(d, p)
    THEN [ok |-> FALSE, disk |-> d]
    ELSE [ok |-> TRUE,
          disk |-> Put(d, p, FileNode(c \o SubSeq(d[p].content, Len(c) + 1,
                                                  Len(d[p].content))))]

\* lib.rs:233-238: OpenOptions write+truncate (no create), write_all, flush.
open_trunc_write(d, p, c) ==
    IF ~IsFile(d, p)
    THEN [ok |-> FALSE, disk |-> d]
    ELSE [ok |-> TRUE, disk |-> Put(d, p, FileNode(c))]

\* fs::remove_dir_all: the directory and everything below it; fails when
\* the path is missing or is no directory.
remove_dir_all(d, p) ==
    IF p = <<>> \/ ~IsDir(d, p)
    THEN [ok |-> FALSE, disk |-> d]
    ELSE [ok |-> TRUE,
          disk |-> [q \in {r \in DOMAIN d : ~IsPrefix(p, r)} |-> d[q]]]

----------------------------------------------------------------------------
(* The materialiser: lib.rs:203-246.  An entry is [path, content].          *)

MutCreateFileEntryClobbers(d, e) ==
    LET r1 == create_dir_all(d, Parent(e.path))
        r2 == fs_write(r1.disk, e.path, e.content)
    IN  IF r1.ok /\ r2.ok THEN [res |-> "written", disk |-> r2.disk]
        ELSE [res |-> "error", disk |-> r1.disk]

\* One iteration of create_files' loop (lib.rs:204-217).
CreateFileEntry(d, e) ==
    IF Exists(d, e.path) THEN [res |-> "skipped", disk |-> d]
    ELSE IF HasExtension(e.path)
         THEN LET r1 == create_dir_all(d, Parent(e.path))
                  r2 == fs_write(r1.disk, e.path, e.content)
              IN  IF ~r1.ok THEN [res |-> "error", disk |-> d]
                  ELSE IF ~r2.ok THEN [res |-> "error", disk |-> r1.disk]
                  ELSE [res |-> "written", disk |-> r2.disk]
         ELSE LET r == create_dir_all(d, e.path)
              IN  IF r.ok THEN [res |-> "mkdir", disk |-> r.disk]
                  ELSE [res |-> "error", disk |-> d]

MutOverrideEntryIgnoresError(d, e) ==
    IF Exists(d, e.path)
    THEN LET r == open_trunc_write(d, e.path, e.content)
         IN  IF r.ok THEN [res |-> "overwritten", disk |-> r.disk]
             ELSE [res |-> "skipped", disk |-> d]
    ELSE LET r1 == create_dir_all(d, Parent(e.path))
             r2 == fs_write(r1.disk, e.path, e.content)
         IN  IF r1.ok /\ r2.ok THEN [res |-> "written", disk |-> r2.disk]
             ELSE [res |-> "skipped", disk |-> r1.disk]

\* One iteration of override_or_create_files' loop (lib.rs:230-243).
OverrideEntry(d, e) ==
    IF Exists(d, e.path)
    THEN LET r == open_trunc_write(d, e.path, e.content)
         IN  IF r.ok THEN [res |-> "overwritten", disk |-> r.disk]
             ELSE [res |-> "error", disk |-> d]
    ELSE LET r1 == create_dir_all(d, Parent(e.path))
             r2 == fs_write(r1.disk, e.path, e.content)
         IN  IF ~r1.ok THEN [res |-> "error", disk |-> d]
             ELSE IF ~r2.ok THEN [res |-> "error", disk |-> r1.disk]
             ELSE [res |-> "written", disk |-> r2.disk]

\* create_files as a whole (lib.rs:203-220): the loop stops at the first
\* failing entry.
RECURSIVE create_files(_, _)
create_files(d, files) ==
    IF files = <<>> THEN [ok |-> TRUE, disk |-> d]
    ELSE LET r == CreateFileEntry(d, Head(files))
         IN  IF r.res = "error" THEN [ok |-> FALSE, disk |-> r.disk]
             ELSE create_files(r.disk, Tail(files))

----------------------------------------------------------------------------
(* SpecMat: calls of the materialiser on one entry list, one after another, *)
(* from every disk of a bounded set.                                        *)

MaxFiles == 2
MaxCalls == 2

CompA == <<"a">>
CompF == <<"f", ".", "txt">>
CompH == <<".", "h">>

MatPaths == { <<CompA>>, <<CompF>>, <<CompH>>, <<CompA, CompF>>, <<CompF, CompF>>, <<CompA, CompA>> }

OlderContent == <<"o", "l", "d", "e", "r">>
MatContents == { <<"x">>, <<"y", "z">> }

MatEntries == [path : MatPaths, content : MatContents]

MatFileLists == SeqsUpTo(MatEntries, MaxFiles)

\* The disks a call may start from: every tree over a, f.txt and a/f.txt.
MatInitDisks ==
    LET ps == { <<CompA>>, <<CompF>>, <<CompA, CompF>> }
        nodes == {DirNode, FileNode(OlderContent)}
    IN  { d \in UNION { [S -> nodes] : S \in SUBSET ps } :
            \A p \in DOMAIN d : IsDir(d, Parent(p)) }

\* The normaliser at rest, for the specifications that do not run it.
NameAtRest ==
    /\ n_raw = <<>>
    /\ n_out = NoOutcome
    /\ syn_extra = FALSE

MatInit ==
    /\ NameAtRest
    /\ InitAtRest
    /\ KeyAtRest
    /\ disk \in MatInitDisks
    /\ m_files \in MatFileLists
    /\ m_op = "none"
    /\ m_pc = "idle"
    /\ m_idx = 0
    /\ m_log = <<>>
    /\ m_start = disk
    /\ m_hist = <<>>

\* entry(op): create_files(&m_files) or override_or_create_files(&m_files)
\* is called.
MatCall(op) ==
    /\ m_pc = "idle"
    /\ Len(m_hist) < MaxCalls
    /\ m_pc' = "loop"
    /\ m_op' = op
    /\ m_idx' = 1
    /\ m_log' = <<>>
    /\ m_start' = disk
    /\ UNCHANGED <<disk, m_files, m_hist, nameVars, initVars, keyVars>>

Finished(res, d, log) ==
    [op |-> m_op, start |-> m_start, end |-> d, res |-> res, log |-> log]

\* One iteration of the for loop; an error returns at once (the ? operator).
MatStep ==
    /\ m_pc = "loop"
    /\ m_idx <= Len(m_files)
    /\ LET e == m_files[m_idx]
           r == IF m_op = "create" THEN CreateFileEntry(disk, e) ELSE OverrideEntry(disk, e)
           log == Append(m_log, [res |-> r.res, before |-> disk])
       IN  /\ disk' = r.disk
           /\ m_log' = log
           /\ IF r.res = "error"
              THEN /\ m_pc' = "idle"
                   /\ m_hist' = Append(m_hist, Finished("Err", r.disk, log))
                   /\ m_idx' = m_idx
              ELSE /\ m_pc' = "loop"
                   /\ m_hist' = m_hist
                   /\ m_idx' = m_idx + 1
    /\ UNCHANGED <<m_files, m_op, m_start, nameVars, initVars, keyVars>>

\* The loop is over: Ok(()).
MatReturn ==
    /\ m_pc = "loop"
    /\ m_idx > Len(m_files)
    /\ m_pc' = "idle"
    /\ m_hist' = Append(m_hist, Finished("Ok", disk, m_log))
    /\ UNCHANGED <<disk, m_files, m_op, m_idx, m_log, m_start, nameVars, initVars, keyVars>>

MatNext ==
    \/ MatCall("create")
    \/ MatCall("override")
    \/ MatStep
    \/ MatReturn

SpecMat == MatInit /\ [][MatNext]_vars

----------------------------------------------------------------------------
(* Paths and contents of the scaffold.  Contents are symbolic: a tag and    *)
(* the values substituted into the template.                                *)

C_App == <<"app">>
C_Target == <<"target">>
C_Deploy == <<"deploy">>
C_AnchorToml == <<"Anchor", ".", "toml">>
C_GitIgnore == <<".", "gitignore">>
C_PrettierIgnore == <<".", "prettierignore">>
C_Programs == <<"programs">>
C_CargoToml == <<"Cargo", ".", "toml">>
C_XargoToml == <<"Xargo", ".", "toml">>
C_Src == <<"src">>
C_LibRs == <<"lib", ".", "rs">>
C_Migrations == <<"migrations">>
C_PackageJson == <<"package", ".", "json">>
C_TsConfig == <<"tsconfig", ".", "json">>
C_DeployJs == <<"deploy", ".", "js">>
C_DeployTs == <<"deploy", ".", "ts">>
C_Tests == <<"tests">>

\* rust_template.rs:418-420: target/deploy/<snake name>-keypair.json
KeypairPath(name) ==
    <<C_Target, C_Deploy, to_snake_case(name) \o <<"-keypair", ".", "json">>>>

\* The public keys Keypair::new() may draw.
KeyIds == {"K1", "K2"}

KeypairContent(id) == <<"keypair", id>>

\* read_keypair_file: the file must be there and hold a keypair.
ReadKeypairOk(d, p) ==
    IsFile(d, p) /\ \E id \in KeyIds : d[p].content = KeypairContent(id)

\* write_keypair_file: the parent directories are made, then the file is
\* created or truncated and written.
write_keypair_file(d, p, id) ==
    LET r1 == create_dir_all(d, Parent(p))
    IN  IF ~r1.ok THEN [ok |-> FALSE, disk |-> d]
        ELSE fs_write(r1.disk, p, KeypairContent(id))

MutGetOrCreateAlwaysNew(d, base, name, fresh) ==
    LET w == write_keypair_file(d, base \o KeypairPath(name), fresh)
    IN  IF w.ok THEN [ok |-> TRUE, id |-> fresh, disk |-> w.disk, generated |-> TRUE]
        ELSE [ok |-> FALSE, id |-> "none", disk |-> w.disk, generated |-> TRUE]

\* rust_template.rs:417-429, run in directory base; fresh is the key
\* Keypair::new() draws if it is called.  ok = FALSE is the panic of
\* expect("Unable to create program keypair").
get_or_create_program_id(d, base, name, fresh) ==
    LET p == base \o KeypairPath(name)
    IN  IF ReadKeypairOk(d, p)
        THEN [ok |-> TRUE, id |-> d[p].content[2], disk |-> d, generated |-> FALSE]
        ELSE LET w == write_keypair_file(d, p, fresh)
             IN  IF w.ok THEN [ok |-> TRUE, id |-> fresh, disk |-> w.disk, generated |-> TRUE]
                 ELSE [ok |-> FALSE, id |-> "none", disk |-> w.disk, generated |-> TRUE]

ProgramTemplates == {"Basic", "Counter", "MintToken"}

\* rust_template.rs:47-309: the one source file of each template, with the
\* program id and the snake-case name substituted.
LibRsContent(name, template, id) == <<"lib.rs", template, id>> \o to_snake_case(name)

\* rust_template.rs:311-408
CargoTomlContent(name, template) == <<"program Cargo.toml", template>> \o name

MutProgramFilesSourceOverManifest(base, name, template, id) ==
    LET program_path == base \o <<C_Programs, name>>
    IN  << [path |-> base \o <<C_CargoToml>>, content |-> <<"workspace Cargo.toml">>],
           [path |-> program_path \o <<C_CargoToml>>, content |-> CargoTomlContent(name, template)],
           [path |-> program_path \o <<C_XargoToml>>, content |-> <<"Xargo.toml">>],
           [path |-> program_path \o <<C_CargoToml>>,
            content |-> LibRsContent(name, template, id)] >>

\* rust_template.rs:30-35, 47-71: the entries create_program hands to
\* create_files, as paths under base.
ProgramFiles(base, name, template, id) ==
    LET program_path == base \o <<C_Programs, name>>
    IN  << [path |-> base \o <<C_CargoToml>>, content |-> <<"workspace Cargo.toml">>],
           [path |-> program_path \o <<C_CargoToml>>, content |-> CargoTomlContent(name, template)],
           [path |-> program_path \o <<C_XargoToml>>, content |-> <<"Xargo.toml">>],
           [path |-> program_path \o <<C_Src, C_LibRs>>,
            content |-> LibRsContent(name, template, id)] >>

\* rust_template.rs:29-44: the template's file list is built first, which
\* looks the program id up again (rust_template.rs:67, 139, 287), then
\* create_files writes the entries.
create_program(d, base, name, template, fresh) ==
    LET k == get_or_create_program_id(d, base, name, fresh)
    IN  IF ~k.ok THEN [res |-> "panic", disk |-> k.disk, id |-> "none"]
        ELSE LET r == create_files(k.disk, ProgramFiles(base, name, template, k.id))
             IN  [res |-> IF r.ok THEN "Ok" ELSE "Err", disk |-> r.disk, id |-> k.id]

\* Several filesystem calls in a row, each `?`-terminated: the first failure
\* stops the sequence.  ops is a sequence of [op, path, content].
RECURSIVE FsSeq(_, _)
FsSeq(d, ops) ==
    IF ops = <<>> THEN [ok |-> TRUE, disk |-> d]
    ELSE LET o == Head(ops)
             r == IF o.op = "create_dir_all" THEN create_dir_all(d, o.path)
                  ELSE fs_write(d, o.path, o.content)
         IN  IF ~r.ok THEN [ok |-> FALSE, disk |-> r.disk]
             ELSE FsSeq(r.disk, Tail(ops))

MkDirs(p) == [op |-> "create_dir_all", path |-> p, content |-> <<>>]
WriteFile(p, c) == [op |-> "write", path |-> p, content |-> c]

MutConfigOpsAlwaysTs(base, javascript) ==
    << WriteFile(base \o <<C_TsConfig>>, <<"tsconfig.json">>),
       WriteFile(base \o <<C_PackageJson>>, <<"package.json", "ts">>),
       WriteFile(base \o <<C_Migrations, C_DeployTs>>, <<"deploy.ts">>) >>

\* lib.rs:146-164
ConfigOps(base, javascript) ==
    IF javascript
    THEN << WriteFile(base \o <<C_PackageJson>>, <<"package.json", "js">>),
            WriteFile(base \o <<C_Migrations, C_DeployJs>>, <<"deploy.js">>) >>
    ELSE << WriteFile(base \o <<C_TsConfig>>, <<"tsconfig.json">>),
            WriteFile(base \o <<C_PackageJson>>, <<"package.json", "ts">>),
            WriteFile(base \o <<C_Migrations, C_DeployTs>>, <<"deploy.ts">>) >>

\* rust_template.rs:983-990
TestOps(base, project_name, template) ==
    << MkDirs(base \o <<C_Tests>>),
       WriteFile(base \o <<C_Tests, project_name \o <<".", "ts">>>>,
                 <<"ts_mocha", template>> \o project_name) >>

----------------------------------------------------------------------------
(* SpecKey: the keypair cache and the file list of a program, called in two *)
(* worlds side by side.  Each call is made with the same arguments in both  *)
(* worlds; a world has its own disk and its own draws of Keypair::new().    *)
(* The working directory of a world is the root of its disk.                *)

MaxKeyCalls == 2

Worlds == {1, 2}

KeyNames == { <<"m","y","-","a","p","p">>, <<"a","b">> }

GarbageContent == <<"garbage">>

\* The disks a call may find, told apart by target/deploy/my_app-keypair.json:
\* no target directory; the keypair of K1 or of K2; a file that holds no
\* keypair; target being a regular file, so that nothing can be written.
KeyDisks ==
    LET kp == KeypairPath(<<"m","y","-","a","p","p">>)
        dirs == {<<C_Target>>, <<C_Target, C_Deploy>>}
        WithFile(c) == [p \in dirs \cup {kp} |-> IF p \in dirs THEN DirNode ELSE FileNode(c)]
    IN  { <<>>,
          WithFile(GarbageContent),
          [p \in {<<C_Target>>} |-> FileNode(GarbageContent)] }
        \cup { WithFile(KeypairContent(id)) : id \in KeyIds }

\* rust_template.rs:30-41: the (path, content) list create_program builds
\* for its template before anything of it is written; the template function
\* looks the program id up on the way (rust_template.rs:67, 139, 287).
RenderProgram(d, base, name, template, fresh) ==
    LET k == get_or_create_program_id(d, base, name, fresh)
    IN  [ok |-> k.ok, id |-> k.id, generated |-> k.generated, disk |-> k.disk,
         files |-> IF k.ok THEN ProgramFiles(base, name, template, k.id) ELSE <<>>]

\* A lookup alone, in the shape of RenderProgram's outcome.
LookupProgramId(d, base, name, fresh) ==
    LET k == get_or_create_program_id(d, base, name, fresh)
    IN  [ok |-> k.ok, id |-> k.id, generated |-> k.generated, disk |-> k.disk,
         files |-> <<>>]

KeyInit ==
    /\ NameAtRest
    /\ MatAtRest
    /\ InitAtRest
    /\ disk = <<>>
    /\ k_disk \in [Worlds -> KeyDisks]
    /\ k_log = <<>>

\* What one world's call did: the disk before and after, and the outcome.
CallRecord(d, r) ==
    [before |-> d, after |-> r.disk, ok |-> r.ok, id |-> r.id,
     generated |-> r.generated, files |-> r.files]

\* get_or_create_program_id(name) is called in both worlds.
KeyLookup(name) ==
    /\ Len(k_log) < MaxKeyCalls
    /\ \E fresh \in [Worlds -> KeyIds] :
          LET r == [w \in Worlds |-> LookupProgramId(k_disk[w], <<>>, name, fresh[w])]
          IN  /\ k_disk' = [w \in Worlds |-> r[w].disk]
              /\ k_log' = Append(k_log, [op |-> "lookup", name |-> name, template |-> "none",
                                         out |-> [w \in Worlds |-> CallRecord(k_disk[w], r[w])]])
    /\ UNCHANGED <<disk, nameVars, matVars, initVars>>

\* The file list of program name, template template, is built in both worlds.
KeyRender(name, template) ==
    /\ Len(k_log) < MaxKeyCalls
    /\ \E fresh \in [Worlds -> KeyIds] :
          LET r == [w \in Worlds |-> RenderProgram(k_disk[w], <<>>, name, template, fresh[w])]
          IN  /\ k_disk' = [w \in Worlds |-> r[w].disk]
              /\ k_log' = Append(k_log, [op |-> "render", name |-> name, template |-> template,
                                         out |-> [w \in Worlds |-> CallRecord(k_disk[w], r[w])]])
    /\ UNCHANGED <<disk, nameVars, matVars, initVars>>

KeyNext ==
    \/ \E name \in KeyNames : KeyLookup(name)
    \/ \E name \in KeyNames, template \in ProgramTemplates : KeyRender(name, template)

SpecKey == KeyInit /\ [][KeyNext]_vars

----------------------------------------------------------------------------
(* Spec: init (lib.rs:80-191), one process after another on one disk.  Each *)
(* process starts in the directory the relative paths of the model start    *)
(* from.  External programs (npm, yarn, git) end in one of the ways the     *)
(* code tells apart: they cannot be started, exit non-zero, or succeed; the *)
(* files they leave (node_modules, .git) are theirs and are not on the      *)
(* model's disk.                                                            *)

MaxRuns == 2

InitNames == { <<"m","y","-","a","p","p">>, <<"t","r","y">> }

InitArgs ==
    [name : InitNames, javascript : BOOLEAN, no_install : BOOLEAN, no_git : BOOLEAN,
     template : ProgramTemplates, force : BOOLEAN]

ToolOutcomes == {"spawn_error", "nonzero", "ok"}

UserContent == <<"user">>

\* The disks the first run may find: nothing; an empty directory of the
\* workspace's name; that directory with files of the user's in it, some
\* under the program subdirectory, some elsewhere.
WorkspaceDisks ==
    LET root == << <<"m","y","-","a","p","p">> >>
        prog == root \o <<C_Programs, <<"m","y","-","a","p","p">>>>
        other == root \o <<C_Programs, <<"other">>>>
        dirs == {root, root \o <<C_Programs>>, prog, other}
        files == {root \o <<<<"notes", ".", "md">>>>, root \o <<C_CargoToml>>,
                  prog \o <<<<"old", ".", "rs">>>>, other \o <<C_LibRs>>}
    IN  { <<>>,
          [p \in {root} |-> DirNode],
          [p \in dirs \cup files |-> IF p \in dirs THEN DirNode ELSE FileNode(UserContent)] }

Init ==
    /\ NameAtRest
    /\ MatAtRest
    /\ KeyAtRest
    /\ disk \in WorkspaceDisks
    /\ pc = "idle"
    /\ args = NoArgs
    /\ names = NoNames
    /\ program_id = "none"
    /\ cwd = <<>>
    /\ result = "none"
    /\ trace = <<>>
    /\ run_start = disk
    /\ made_root = {}
    /\ scaffolded = {}
    /\ runs = 0

\* The step at pc returns the error res (the ? operator, or a panic).
Fail(res) ==
    /\ pc' = "done"
    /\ result' = res

Goto(next) ==
    /\ pc' = next
    /\ result' = result

Did(step) == trace' = Append(trace, step)

TraceHas(step) == \E i \in 1..Len(trace) : trace[i] = step

\* init is entered with arguments a (lib.rs:80-88).
InitStart(a) ==
    /\ pc = "idle"
    /\ runs < MaxRuns
    /\ pc' = "validate"
    /\ args' = a
    /\ run_start' = disk
    /\ UNCHANGED <<disk, names, program_id, cwd, result, trace, made_root, scaffolded,
                   runs,
                   nameVars, matVars, keyVars>>

MutValidateNameLate ==
    /\ pc = "validate"
    /\ LET n == Normalize(args.name, syn_extra)
           r == create_dir_all(disk, <<n.project_name>>)
       IN  /\ names' = [rust_name |-> n.rust_name, project_name |-> n.project_name]
           /\ disk' = r.disk
           /\ Did("create_dir")
           /\ IF n.res = "Ok" THEN Goto("mkroot") ELSE Fail("InvalidIdentifier")
    /\ UNCHANGED <<args, program_id, cwd, run_start, made_root, scaffolded, runs,
                   nameVars, matVars, keyVars>>

\* lib.rs:89-107
ValidateName ==
    /\ pc = "validate"
    /\ LET n == Normalize(args.name, syn_extra)
       IN  /\ names' = [rust_name |-> n.rust_name, project_name |-> n.project_name]
           /\ IF n.res = "Ok" THEN Goto("mkroot") ELSE Fail("InvalidIdentifier")
    /\ UNCHANGED <<disk, args, program_id, cwd, trace, run_start, made_root, scaffolded, runs,
                   nameVars, matVars, keyVars>>

MutMkRootAlwaysReuse(d, project_name, force) == create_dir_all(d, <<project_name>>)

\* lib.rs:109-113
MkRootCall(d, project_name, force) ==
    IF force THEN create_dir_all(d, <<project_name>>) ELSE create_dir(d, <<project_name>>)

MkRoot ==
    /\ pc = "mkroot"
    /\ LET r == MkRootCall(disk, names.project_name, args.force)
       IN  /\ disk' = r.disk
           /\ IF r.ok THEN Goto("enter") /\ Did("create_dir")
              ELSE Fail("Err:create_dir") /\ trace' = trace
    /\ UNCHANGED <<args, names, program_id, cwd, run_start, made_root, scaffolded, runs,
                   nameVars, matVars, keyVars>>

\* lib.rs:114-115: set_current_dir(&project_name)?; create_dir_all("app")?
EnterRoot ==
    /\ pc = "enter"
    /\ IF ~IsDir(disk, <<names.project_name>>)
       THEN Fail("Err:set_current_dir") /\ UNCHANGED <<disk, cwd, trace>>
       ELSE LET r == create_dir_all(disk, <<names.project_name, C_App>>)
            IN  /\ cwd' = <<names.project_name>>
                /\ disk' = r.disk
                /\ Did("set_current_dir")
                /\ IF r.ok THEN Goto("keypair") ELSE Fail("Err:app")
    /\ UNCHANGED <<args, names, program_id, run_start, made_root, scaffolded, runs,
                   nameVars, matVars, keyVars>>

\* lib.rs:117-118
ResolveProgramId ==
    /\ pc = "keypair"
    /\ \E fresh \in KeyIds :
          LET k == get_or_create_program_id(disk, cwd, names.rust_name, fresh)
          IN  /\ disk' = k.disk
              /\ program_id' = k.id
              /\ Did("keypair")
              /\ IF k.ok THEN Goto("manifests") ELSE Fail("Panic:keypair")
    /\ UNCHANGED <<args, names, cwd, run_start, made_root, scaffolded, runs,
                   nameVars, matVars, keyVars>>

\* lib.rs:119-126: Anchor.toml, .gitignore, .prettierignore
WriteManifests ==
    /\ pc = "manifests"
    /\ LET r == FsSeq(disk,
                   << WriteFile(cwd \o <<C_AnchorToml>>, <<"Anchor.toml", program_id>>),
                      WriteFile(cwd \o <<C_GitIgnore>>, <<".gitignore">>),
                      WriteFile(cwd \o <<C_PrettierIgnore>>, <<".prettierignore">>) >>)
       IN  /\ disk' = r.disk
           /\ Did("write")
           /\ IF r.ok THEN Goto("remove") ELSE Fail("Err:write")
    /\ UNCHANGED <<args, names, program_id, cwd, run_start, made_root, scaffolded, runs,
                   nameVars, matVars, keyVars>>

MutRemoveWholePrograms(d, base, project_name, force) ==
    IF force THEN remove_dir_all(d, base \o <<C_Programs>>) ELSE [ok |-> TRUE, disk |-> d]

\* lib.rs:128-135
RemoveProgramCall(d, base, project_name, force) ==
    IF force THEN remove_dir_all(d, base \o <<C_Programs, project_name>>)
    ELSE [ok |-> TRUE, disk |-> d]

RemoveProgram ==
    /\ pc = "remove"
    /\ LET r == RemoveProgramCall(disk, cwd, names.project_name, args.force)
       IN  /\ disk' = r.disk
           /\ IF args.force THEN Did("remove_dir_all") ELSE trace' = trace
           /\ IF r.ok THEN Goto("program") ELSE Fail("Err:remove_dir_all")
    /\ UNCHANGED <<args, names, program_id, cwd, run_start, made_root, scaffolded, runs,
                   nameVars, matVars, keyVars>>

\* lib.rs:137-138
CreateProgram ==
    /\ pc = "program"
    /\ \E fresh \in KeyIds :
          LET r == create_program(disk, cwd, names.project_name, args.template, fresh)
          IN  /\ disk' = r.disk
              /\ Did("create_program")
              /\ IF r.res = "Ok" THEN Goto("migrations")
                 ELSE Fail(IF r.res = "panic" THEN "Panic:create_program"
                           ELSE "Err:create_program")
    /\ UNCHANGED <<args, names, program_id, cwd, run_start, made_root, scaffolded, runs,
                   nameVars, matVars, keyVars>>

\* lib.rs:140-143: the migrations directory, then `npm config get
\* init-license`, which fails init when it cannot run or exits non-zero.
MigrationsAndLicense ==
    /\ pc = "migrations"
    /\ LET r == create_dir_all(disk, cwd \o <<C_Migrations>>)
       IN  /\ disk' = r.disk
           /\ IF ~r.ok THEN Fail("Err:migrations") /\ Did("create_dir_all")
              ELSE \E outcome \in ToolOutcomes :
                      /\ trace' = trace \o <<"create_dir_all", "npm config">>
                      /\ IF outcome = "ok" THEN Goto("config") ELSE Fail("Err:license")
    /\ UNCHANGED <<args, names, program_id, cwd, run_start, made_root, scaffolded, runs,
                   nameVars, matVars, keyVars>>

\* lib.rs:145-166: the package files, then the test files.
WriteConfigAndTests ==
    /\ pc = "config"
    /\ LET r == FsSeq(disk, ConfigOps(cwd, args.javascript)
                            \o TestOps(cwd, names.project_name, args.template))
       IN  /\ disk' = r.disk
           /\ Did("write")
           /\ IF r.ok THEN Goto("install") ELSE Fail("Err:write")
    /\ UNCHANGED <<args, names, program_id, cwd, run_start, made_root, scaffolded, runs,
                   nameVars, matVars, keyVars>>

\* lib.rs:168-174 with install_node_modules (lib.rs:248-264): yarn, then npm
\* when yarn exits non-zero; an installer that cannot be started is an error
\* of init, npm's exit status is not looked at.
InstallNodeModules ==
    /\ pc = "install"
    /\ IF args.no_install
       THEN Goto("git") /\ UNCHANGED <<disk, trace>>
       ELSE \E yarn \in ToolOutcomes, npm \in ToolOutcomes :
               CASE yarn = "spawn_error" ->
                       Fail("Err:yarn install") /\ Did("yarn") /\ disk' = disk
                 [] yarn = "ok" ->
                       Goto("git") /\ Did("yarn") /\ disk' = disk
                 [] yarn = "nonzero" /\ npm = "spawn_error" ->
                       /\ Fail("Err:npm install")
                       /\ trace' = trace \o <<"yarn", "npm">>
                       /\ disk' = disk
                 [] yarn = "nonzero" /\ npm # "spawn_error" ->
                       /\ Goto("git")
                       /\ trace' = trace \o <<"yarn", "npm">>
                       /\ disk' = disk
    /\ UNCHANGED <<args, names, program_id, cwd, run_start, made_root, scaffolded, runs,
                   nameVars, matVars, keyVars>>

\* lib.rs:176-186
GitInit ==
    /\ pc = "git"
    /\ IF args.no_git
       THEN Goto("finish") /\ UNCHANGED <<disk, trace>>
       ELSE \E git \in ToolOutcomes :
               /\ Did("git")
               /\ IF git = "spawn_error"
                  THEN Fail("Err:git init")
                  ELSE Goto("finish")
               /\ disk' = disk
    /\ UNCHANGED <<args, names, program_id, cwd, run_start, made_root, scaffolded, runs,
                   nameVars, matVars, keyVars>>

\* lib.rs:188-190
Finish ==
    /\ pc = "finish"
    /\ pc' = "done"
    /\ result' = "Ok"
    /\ UNCHANGED <<disk, args, names, program_id, cwd, trace, run_start, made_root,
                   scaffolded, runs,
                   nameVars, matVars, keyVars>>

\* The process ends (main.rs:5-7); the disk stays.
Exit ==
    /\ pc = "done"
    /\ pc' = "idle"
    /\ args' = NoArgs
    /\ names' = NoNames
    /\ program_id' = "none"
    /\ cwd' = <<>>
    /\ result' = "none"
    /\ trace' = <<>>
    /\ run_start' = disk
    /\ runs' = runs + 1
    /\ made_root' = IF TraceHas("create_dir")
                    THEN made_root \cup {names.project_name} ELSE made_root
    /\ scaffolded' = IF TraceHas("create_program")
                        /\ result \notin {"Err:create_program", "Panic:create_program"}
                     THEN scaffolded \cup {names.project_name} ELSE scaffolded
    /\ UNCHANGED <<disk, nameVars, matVars, keyVars>>

Next ==
    \/ \E a \in InitArgs : InitStart(a)
    \/ ValidateName
    \/ MkRoot
    \/ EnterRoot
    \/ ResolveProgramId
    \/ WriteManifests
    \/ RemoveProgram
    \/ CreateProgram
    \/ MigrationsAndLicense
    \/ WriteConfigAndTests
    \/ InstallNodeModules
    \/ GitInit
    \/ Finish
    \/ Exit

Spec == Init /\ [][Next]_vars

----------------------------------------------------------------------------
(* Claims about the materialiser (SpecMat).                                 *)

\* The disk right after the running (or last) call handled entry i.
AfterEntry(i) == IF i < Len(m_log) THEN m_log[i + 1].before ELSE disk

\* After entry i was handled without error the loop goes on: it stands at
\* entry i + 1, has gone past it, or has returned Ok.
LoopWentOn(i) ==
    \/ Len(m_log) > i
    \/ m_pc = "loop" /\ m_idx = i + 1
    \/ m_pc = "idle" /\ m_hist # <<>> /\ m_hist[Len(m_hist)].res = "Ok"

\* C1: create_files never clobbers.  For every entry the loop has handled:
\* if its path existed when it was reached, the entry is skipped, the disk
\* is left exactly as it was, no error is returned and the loop goes on, and
\* the path still holds its old node now; if its path has an extension, did
\* not exist and the filesystem calls did not fail, all its ancestors are
\* directories afterwards, the file holds exactly the entry's content (then
\* and now), and nothing else on the disk changed.  The only entry at which
\* a filesystem call fails is one with a regular file among its ancestors.
C1_CreateNeverClobbers ==
    m_op = "create" =>
        \A i \in 1..Len(m_log) :
            LET e == m_files[i]
                b == m_log[i].before
                a == AfterEntry(i)
            IN  /\ Exists(b, e.path) =>
                      /\ m_log[i].res = "skipped"
                      /\ a = b
                      /\ LoopWentOn(i)
                      /\ Exists(disk, e.path) /\ disk[e.path] = b[e.path]
                /\ (~Exists(b, e.path) /\ HasExtension(e.path) /\ m_log[i].res # "error") =>
                      /\ m_log[i].res = "written"
                      /\ \A anc \in Ancestors(e.path) : IsDir(a, anc)
                      /\ IsFile(a, e.path) /\ a[e.path].content = e.content
                      /\ DOMAIN a = DOMAIN b \cup {e.path} \cup Ancestors(e.path)
                      /\ \A q \in DOMAIN b : a[q] = b[q]
                      /\ LoopWentOn(i)
                      /\ IsFile(disk, e.path) /\ disk[e.path].content = e.content
                /\ m_log[i].res = "error" <=>
                      (~Exists(b, e.path) /\ \E anc \in Ancestors(e.path) : IsFile(b, anc))

\* C1's case: one call of create_files that skipped an entry whose path was
\* an existing file and wrote an entry whose parent directory was missing.
C1_Witness ==
    /\ m_op = "create" /\ m_pc = "idle" /\ m_hist # <<>>
    /\ \E i, j \in 1..Len(m_log) :
          /\ m_log[i].res = "skipped" /\ IsFile(m_log[i].before, m_files[i].path)
          /\ m_log[j].res = "written"
          /\ Len(m_files[j].path) = 2
          /\ ~Exists(m_log[j].before, Parent(m_files[j].path))

\* C2: create_files is idempotent.  Whenever create_files has run twice in
\* a row on the same entries, the second call starts from the disk the
\* first one left, ends with that same disk, and writes nothing (no entry
\* is written, no directory made); when the first call returned Ok, the
\* second returns Ok and skips every entry.
C2_CreateIdempotent ==
    \A k \in 1..(Len(m_hist) - 1) :
        LET first == m_hist[k]
            second == m_hist[k + 1]
        IN  (first.op = "create" /\ second.op = "create") =>
                /\ second.start = first.end
                /\ second.end = first.end
                /\ \A i \in 1..Len(second.log) :
                      /\ second.log[i].res \notin {"written", "mkdir", "overwritten"}
                      /\ second.log[i].before = first.end
                /\ second.res = first.res
                /\ first.res = "Ok" =>
                      /\ Len(second.log) = Len(m_files)
                      /\ \A i \in 1..Len(second.log) : second.log[i].res = "skipped"

\* C2's case: two calls of create_files in a row, the first of which wrote a
\* file and made a directory and returned Ok.
C2_Witness ==
    /\ Len(m_hist) >= 2
    /\ m_hist[1].op = "create" /\ m_hist[2].op = "create"
    /\ m_hist[1].res = "Ok" /\ m_hist[2].res = "Ok"
    /\ m_hist[1].end # m_hist[1].start
    /\ \E i \in 1..Len(m_hist[1].log) : m_hist[1].log[i].res = "written"
    /\ Len(m_hist[2].log) = MaxFiles

\* The last entry of the list with the same path as entry i.
LastWithPath(i) ==
    CHOOSE j \in i..Len(m_files) :
        /\ m_files[j].path = m_files[i].path
        /\ \A l \in (j + 1)..Len(m_files) : m_files[l].path # m_files[i].path

\* C3 as stated: after override_or_create_files succeeds, every entry's path
\* holds exactly that entry's content.
C3_Original ==
    \A k \in 1..Len(m_hist) :
        (m_hist[k].op = "override" /\ m_hist[k].res = "Ok") =>
            \A i \in 1..Len(m_files) :
                /\ IsFile(m_hist[k].end, m_files[i].path)
                /\ m_hist[k].end[m_files[i].path].content = m_files[i].content

\* C3 amended: after override_or_create_files succeeds, every entry's path
\* is a regular file that holds exactly the content of the last entry of the
\* list with that path (that entry's own content when no later entry names
\* the same path), with nothing of the older content left; the parents of a
\* path that did not exist are directories.
C3_OverwriteLaw ==
    \A k \in 1..Len(m_hist) :
        (m_hist[k].op = "override" /\ m_hist[k].res = "Ok") =>
            \A i \in 1..Len(m_files) :
                /\ IsFile(m_hist[k].end, m_files[i].path)
                /\ m_hist[k].end[m_files[i].path].content = m_files[LastWithPath(i)].content
                /\ \A anc \in Ancestors(m_files[i].path) : IsDir(m_hist[k].end, anc)

\* C3's case: a successful override_or_create_files that rewrote a file that
\* held longer content and created a file whose parent was missing.
C3_Witness ==
    /\ m_hist # <<>>
    /\ m_hist[1].op = "override" /\ m_hist[1].res = "Ok"
    /\ \E i, j \in 1..Len(m_files) :
          /\ IsFile(m_hist[1].start, m_files[i].path)
          /\ Len(m_hist[1].start[m_files[i].path].content) > Len(m_files[i].content)
          /\ m_hist[1].log[i].res = "overwritten"
          /\ m_hist[1].log[j].res = "written"
          /\ ~Exists(m_hist[1].start, Parent(m_files[j].path))
          /\ Len(m_files[j].path) = 2

\* The entries of call h before entry k that wrote their file.
Writers(h, k) ==
    {i \in 1..(k - 1) : h.log[i].res \in {"written", "overwritten"}}

\* C15: the materialiser is not transactional.  A call of create_files or
\* override_or_create_files that returned an error did so at the first entry
\* k at which a filesystem call failed: its loop ran k times and no entry
\* after k was handled.  The disk it returned with is the disk entry k was
\* reached with, nothing removed and nothing restored: every file an entry
\* before k wrote is there, with the content of the last entry before k
\* that wrote it, and every directory an entry before k made is there.  A
\* call that returned Ok handled every entry, and every entry's path exists.
C15_NotTransactional ==
    \A c \in 1..Len(m_hist) :
        LET h == m_hist[c]
            k == Len(h.log)
        IN  /\ h.res = "Err" =>
                  /\ k \in 1..Len(m_files)
                  /\ h.log[k].res = "error"
                  /\ \A i \in 1..(k - 1) : h.log[i].res # "error"
                  /\ \A q \in DOMAIN h.log[k].before :
                        Exists(h.end, q) /\ h.end[q] = h.log[k].before[q]
                  /\ \A i \in Writers(h, k) :
                        LET last == CHOOSE j \in Writers(h, k) :
                                       /\ m_files[j].path = m_files[i].path
                                       /\ \A l \in Writers(h, k) :
                                             m_files[l].path = m_files[i].path => l <= j
                        IN  /\ IsFile(h.end, m_files[i].path)
                            /\ h.end[m_files[i].path].content = m_files[last].content
                  /\ \A i \in 1..(k - 1) :
                        h.log[i].res = "mkdir" => IsDir(h.end, m_files[i].path)
                  /\ c < Len(m_hist) => m_hist[c + 1].start = h.end
            /\ h.res = "Ok" =>
                  /\ k = Len(m_files)
                  /\ \A i \in 1..k : h.log[i].res # "error" /\ Exists(h.end, m_files[i].path)

\* C15's case: a call that wrote the file of its first entry, making the
\* parent directory on the way, and failed at its second entry; the file
\* and the directory are on the disk now, which had neither when the call
\* began.
C15_Witness ==
    /\ m_pc = "idle" /\ Len(m_hist) = 1
    /\ m_hist[1].res = "Err"
    /\ Len(m_hist[1].log) = 2
    /\ m_hist[1].log[1].res = "written"
    /\ Len(m_files[1].path) = 2
    /\ ~Exists(m_hist[1].start, Parent(m_files[1].path))
    /\ IsFile(disk, m_files[1].path)
    /\ disk[m_files[1].path].content = m_files[1].content
    /\ IsDir(disk, Parent(m_files[1].path))

\* C16: in create_files, an entry whose path has no extension and does not
\* exist is a request for a directory.  Unless the filesystem call fails,
\* the path and all its missing ancestors are directories afterwards, they
\* are all that was added, nothing that existed was changed, and so the
\* entry's content is in no file; the loop goes on.
C16_NoExtensionMakesDirectory ==
    m_op = "create" =>
        \A i \in 1..Len(m_log) :
            LET e == m_files[i]
                b == m_log[i].before
                a == AfterEntry(i)
            IN  (~Exists(b, e.path) /\ ~HasExtension(e.path) /\ m_log[i].res # "error") =>
                    /\ m_log[i].res = "mkdir"
                    /\ IsDir(a, e.path)
                    /\ \A anc \in Ancestors(e.path) : IsDir(a, anc)
                    /\ DOMAIN a = DOMAIN b \cup {e.path} \cup Ancestors(e.path)
                    /\ \A q \in DOMAIN b : a[q] = b[q]
                    /\ \A q \in DOMAIN a \ DOMAIN b : a[q] = DirNode
                    /\ LoopWentOn(i)
                    /\ IsDir(disk, e.path)

\* C16's case: one call of create_files made a directory two levels deep
\* whose parent was missing, and a directory for a name that only starts
\* with a dot; neither entry's content is in any file.
C16_Witness ==
    /\ m_op = "create" /\ m_pc = "idle" /\ Len(m_hist) = 1 /\ m_hist[1].res = "Ok"
    /\ \E i, j \in 1..Len(m_log) :
          /\ m_log[i].res = "mkdir" /\ m_log[j].res = "mkdir"
          /\ Len(m_files[i].path) = 2
          /\ ~Exists(m_log[i].before, Parent(m_files[i].path))
          /\ m_files[j].path = <<CompH>>
          /\ IsDir(disk, m_files[i].path) /\ IsDir(disk, <<CompH>>)
    /\ \A q \in DOMAIN disk : disk[q].kind = "file" => disk[q].content = OlderContent

----------------------------------------------------------------------------
(* Claims about the normaliser (SpecName).                                  *)

Normalized == n_out.res # "none"
Accepted == n_out.res = "Ok"

\* A character that may not occur in a Rust identifier.
IllegalInIdent(c) == ~IsXidContinue(c)
HasIllegalChar(s) == \E i \in 1..Len(s) : IllegalInIdent(s[i])

MyProjectBang == <<"m","y"," ","p","r","o","j","e","c","t","!">>
MyDashApp == <<"m","y","-","a","p","p">>
MyUnderApp == <<"m","y","_","a","p","p">>

\* C8 as stated: every raw name containing a character that is illegal in
\* an identifier is rejected with InvalidIdentifier.
C8_Original ==
    (Normalized /\ HasIllegalChar(n_raw)) => n_out.res = "InvalidIdentifier"

\* C8 amended: every raw name whose identifier form (its snake-case
\* conversion) still contains a character that is illegal in an identifier
\* is rejected with InvalidIdentifier; the conversion drops every
\* non-alphanumeric character as a word separator, so a name whose only
\* illegal characters are such separators is judged on the words that
\* remain: "my project!" is accepted, as my_project / my-project.
C8_IllegalCharInIdentifierForm ==
    Normalized =>
        /\ HasIllegalChar(n_out.rust_name) => n_out.res = "InvalidIdentifier"
        /\ \A i \in 1..Len(n_out.rust_name) :
              IsAlphanumeric(n_out.rust_name[i]) \/ n_out.rust_name[i] = "_"
        /\ n_raw = MyProjectBang =>
              /\ n_out.res = "Ok"
              /\ n_out.rust_name = <<"m","y","_","p","r","o","j","e","c","t">>
              /\ n_out.project_name = <<"m","y","-","p","r","o","j","e","c","t">>

\* C8's case: a name rejected because its identifier form keeps an illegal
\* character.
C8_Witness ==
    /\ n_out.res = "InvalidIdentifier"
    /\ HasIllegalChar(n_out.rust_name)
    /\ n_out.rust_name \notin extra_keywords \cup SynKeywords

\* C9: every raw name whose identifier form is try, async or await is
\* rejected with InvalidIdentifier, whether or not the syn release in use
\* reserves the word.
C9_BlocklistRejected ==
    (Normalized /\ n_out.rust_name \in extra_keywords) => n_out.res = "InvalidIdentifier"

\* C9's case: a raw name that is not itself the reserved word (it differs in
\* case or punctuation) but whose identifier form is, rejected although syn
\* would have parsed that identifier form.
C9_Witness ==
    /\ n_out.res = "InvalidIdentifier"
    /\ n_out.rust_name = <<"t","r","y">>
    /\ n_raw # n_out.rust_name
    /\ ~syn_extra
    /\ SynParseIdentOk(n_out.rust_name, syn_extra)

\* s with every underscore replaced by a hyphen.
Hyphenated(s) == [i \in 1..Len(s) |-> IF s[i] = "_" THEN "-" ELSE s[i]]

\* C10 as stated: for every accepted raw name, directory_form equals
\* identifier_form exactly when the raw name equals its identifier_form, and
\* otherwise directory_form is the kebab rendering of the raw name.
C10_Original ==
    Accepted =>
        /\ (n_out.project_name = n_out.rust_name) <=> (n_raw = n_out.rust_name)
        /\ n_raw # n_out.rust_name => n_out.project_name = Hyphenated(n_out.rust_name)

\* C10 amended: for every accepted raw name, directory_form equals
\* identifier_form whenever the raw name equals its identifier_form;
\* otherwise directory_form is the kebab rendering of the raw name (the
\* identifier form with hyphens for underscores), which is again equal to
\* identifier_form when the name has a single word.  "my-app" gives my_app
\* and my-app; "my_app" gives my_app for both.
C10_DirectoryForm ==
    Accepted =>
        /\ n_raw = n_out.rust_name => n_out.project_name = n_out.rust_name
        /\ n_raw # n_out.rust_name => n_out.project_name = Hyphenated(n_out.rust_name)
        /\ (n_out.project_name = n_out.rust_name) <=>
              (n_raw = n_out.rust_name \/ \A i \in 1..Len(n_out.rust_name) : n_out.rust_name[i] # "_")
        /\ n_raw = MyDashApp =>
              n_out.rust_name = MyUnderApp /\ n_out.project_name = MyDashApp
        /\ n_raw = MyUnderApp =>
              n_out.rust_name = MyUnderApp /\ n_out.project_name = MyUnderApp

\* C10's case: an accepted name already in snake case with two words, whose
\* directory form keeps the underscore.
C10_Witness ==
    /\ Accepted
    /\ n_raw = MyUnderApp
    /\ n_out.project_name = MyUnderApp

----------------------------------------------------------------------------
(* Claims about init (Spec).                                                *)

Running == pc # "idle"
PastRootCreation == pc \notin {"idle", "validate", "mkroot"}

Root == <<names.project_name>>
ProgramDir == <<names.project_name, C_Programs, names.project_name>>

\* The run has had no side effect at all: nothing on disk changed, the
\* working directory is the one the process started in, and no step with a
\* side effect (directory creation, keypair lookup, file write, external
\* program) was taken.
NoSideEffect == disk = run_start /\ cwd = <<>> /\ trace = <<>> /\ program_id = "none"

\* C4: a run without the force flag for a name whose root directory an
\* earlier run made stops at the root-directory creation step with an
\* error, before the keypair lookup, any file write and any external
\* program, and leaves the disk as the earlier run left it.
C4_SecondRunWithoutForce ==
    (PastRootCreation /\ ~args.force /\ names.project_name \in made_root) =>
        /\ pc = "done"
        /\ result = "Err:create_dir"
        /\ NoSideEffect
        /\ IsDir(disk, Root)

\* C4's case: the second run, without force, over a workspace the first run
\* scaffolded completely, stopped with the error.
C4_Witness ==
    /\ pc = "done" /\ result = "Err:create_dir"
    /\ ~args.force
    /\ runs = 1
    /\ names.project_name \in scaffolded
    /\ IsFile(disk, Root \o <<C_AnchorToml>>)

\* The paths init writes with create-or-truncate, whatever they held.
InitOverwrites ==
    { Root \o <<C_AnchorToml>>, Root \o <<C_GitIgnore>>, Root \o <<C_PrettierIgnore>>,
      Root \o <<C_PackageJson>>, Root \o <<C_TsConfig>>,
      Root \o <<C_Migrations, C_DeployJs>>, Root \o <<C_Migrations, C_DeployTs>>,
      Root \o <<C_Tests, names.project_name \o <<".", "ts">>>> }

\* The results of init that come from an external program, not from the
\* state of the workspace directory.
ExternalFailures == {"Err:license", "Err:yarn install", "Err:npm install", "Err:git init"}

\* C5: a run with the force flag over a directory an earlier run built the
\* program in reuses the directory: no filesystem step of it fails (it ends
\* Ok unless an external program fails it), the only paths it deletes lie
\* under programs/<directory_form>, and every path that was there before,
\* is outside that subdirectory and is not a file init overwrites is still
\* there with its content unchanged.
C5_ForceRerunReuses ==
    (Running /\ pc # "validate" /\ args.force /\ names.project_name \in scaffolded) =>
        /\ pc = "done" => result \in {"Ok"} \cup ExternalFailures
        /\ \A p \in DOMAIN run_start :
              /\ p \notin DOMAIN disk => IsPrefix(ProgramDir, p)
              /\ (~IsPrefix(ProgramDir, p) /\ p \notin InitOverwrites) =>
                    (p \in DOMAIN disk /\ disk[p] = run_start[p])

\* C5's case: a force run over a scaffolded workspace that ended Ok, replaced
\* the program source, and kept the user's files and the other program.
C5_Witness ==
    /\ pc = "done" /\ result = "Ok"
    /\ args.force
    /\ names.project_name \in scaffolded
    /\ IsFile(run_start, ProgramDir \o <<C_Src, C_LibRs>>)
    /\ disk[ProgramDir \o <<C_Src, C_LibRs>>] # run_start[ProgramDir \o <<C_Src, C_LibRs>>]
    /\ IsFile(disk, Root \o <<<<"notes", ".", "md">>>>)
    /\ IsFile(disk, Root \o <<C_Programs, <<"other">>, C_LibRs>>)
    /\ disk[Root \o <<C_CargoToml>>].content = UserContent

\* The prior states of the workspace directory C6 names: absent, present
\* and empty, present with the program subdirectory.
RootAbsent == ~Exists(run_start, Root)
RootEmpty == IsDir(run_start, Root) /\ \A p \in DOMAIN run_start : p = Root \/ ~IsPrefix(Root, p)
RootWithProgram == IsDir(run_start, Root) /\ IsDir(run_start, ProgramDir)

\* C6 as stated: with the force flag and a valid name, whether the root
\* directory was absent, present and empty, or present with the program
\* subdirectory, init does not fail on the state of the workspace directory
\* and goes on to materialize the program files.
C6_ForceCreatesOrReuses ==
    (pc = "done" /\ args.force /\ result # "InvalidIdentifier"
       /\ (RootAbsent \/ RootEmpty \/ RootWithProgram)) =>
        /\ result \in {"Ok"} \cup ExternalFailures
        /\ TraceHas("create_program")

\* C7: whenever the name fails normalization, init returns the
\* InvalidIdentifier error and has had no side effect: no directory was
\* created, the working directory was not changed, no keypair or file was
\* written and no external program was run.
C7_ValidationIsPreflight ==
    /\ (Running /\ pc # "validate" /\ NameRejected(args.name, syn_extra)) =>
          (pc = "done" /\ result = "InvalidIdentifier")
    /\ result = "InvalidIdentifier" =>
          (NameRejected(args.name, syn_extra) /\ NoSideEffect)

\* C7's case: a run with a reserved word for a name, with the force flag
\* and a workspace on the disk, ended with the error.
C7_Witness ==
    /\ pc = "done" /\ result = "InvalidIdentifier"
    /\ args.name = <<"t","r","y">>
    /\ args.force
    /\ run_start # <<>>

----------------------------------------------------------------------------
(* Claims about the keypair cache and the program's file list (SpecKey).    *)

Renders == {i \in 1..Len(k_log) : k_log[i].op = "render"}

MyApp == <<"m","y","-","a","p","p">>

\* C11: building the file list of a program is pure: two builds with the
\* same name and template give the same (path, content) list whatever the
\* disk holds at the time of each, and a build writes no file and draws no
\* random key.
C11_RenderIsPure ==
    /\ \A i \in Renders, j \in Renders, w \in Worlds, v \in Worlds :
          ( /\ k_log[i].name = k_log[j].name
            /\ k_log[i].template = k_log[j].template
            /\ k_log[i].out[w].ok /\ k_log[j].out[v].ok )
          => k_log[i].out[w].files = k_log[j].out[v].files
    /\ \A i \in Renders, w \in Worlds :
          /\ k_log[i].out[w].after = k_log[i].out[w].before
          /\ ~k_log[i].out[w].generated

\* C12: get_or_create_program_id(name) on a disk whose keypair file for name
\* is readable returns the identifier stored there and leaves the disk as it
\* was; when the file cannot be read (missing or no keypair) it draws a new
\* keypair and, unless writing fails, leaves it in that file and returns its
\* identifier; a later call for the same name that finds the file as the
\* earlier call left it returns the identifier the earlier call returned.
C12_ReadOrCreate ==
    \A i \in 1..Len(k_log), w \in Worlds :
        LET c == k_log[i].out[w]
            p == KeypairPath(k_log[i].name)
        IN  /\ ReadKeypairOk(c.before, p) =>
                  /\ c.ok /\ ~c.generated
                  /\ c.id = c.before[p].content[2]
                  /\ c.after = c.before
            /\ ~ReadKeypairOk(c.before, p) =>
                  /\ c.generated
                  /\ c.ok => /\ c.id \in KeyIds
                             /\ IsFile(c.after, p)
                             /\ c.after[p].content = KeypairContent(c.id)
            /\ \A j \in (i + 1)..Len(k_log) :
                  ( /\ k_log[j].name = k_log[i].name
                    /\ c.ok
                    /\ IsFile(k_log[j].out[w].before, p)
                    /\ k_log[j].out[w].before[p] = c.after[p] )
                  => /\ k_log[j].out[w].ok
                     /\ k_log[j].out[w].id = c.id

\* C12's case: two lookups for my-app; the first found no keypair file in
\* world 1 and a file holding no keypair in world 2, drew a key in each and
\* stored it; the second returned the same identifiers without drawing.
C12_Witness ==
    /\ Len(k_log) = 2
    /\ k_log[1].op = "lookup" /\ k_log[2].op = "lookup"
    /\ k_log[1].name = MyApp /\ k_log[2].name = MyApp
    /\ ~Exists(k_log[1].out[1].before, KeypairPath(MyApp))
    /\ IsFile(k_log[1].out[2].before, KeypairPath(MyApp))
    /\ k_log[1].out[2].before[KeypairPath(MyApp)].content = GarbageContent
    /\ \A w \in Worlds :
          /\ k_log[1].out[w].ok /\ k_log[1].out[w].generated
          /\ k_log[2].out[w].ok /\ ~k_log[2].out[w].generated
          /\ k_log[2].out[w].id = k_log[1].out[w].id
    /\ k_log[1].out[1].id # k_log[1].out[2].id

----------------------------------------------------------------------------
(* Claims about init's external programs (Spec).                            *)

\* C13: no failure of the dependency installers ends init: a run that does
\* not skip installation never returns an installer's error, whatever way
\* yarn or npm failed (not started, or exited non-zero).
C13_InstallerNeverFatal ==
    (Running /\ ~args.no_install) =>
        result \notin {"Err:yarn install", "Err:npm install"}

\* C14: no failure of git init ends init with an error: a run that does not
\* skip git init never returns its error, whether git could not be started
\* or exited non-zero.
C14_GitNeverFatal ==
    (Running /\ ~args.no_git) => result # "Err:git init"

----------------------------------------------------------------------------
(* Claims about the workspace init leaves (Spec).                           *)

\* C17: whenever init returns Ok, the root directory named by project_name
\* exists and holds Anchor.toml, .gitignore and .prettierignore, the
\* directories migrations, programs and tests, the program directory
\* programs/<project_name> with its Cargo.toml and src/lib.rs, and the
\* package files of the chosen language: package.json and
\* migrations/deploy.js for JavaScript; tsconfig.json, package.json and
\* migrations/deploy.ts for TypeScript.
C17_LayoutAfterOk ==
    result = "Ok" =>
        /\ IsDir(disk, Root)
        /\ IsFile(disk, Root \o <<C_AnchorToml>>)
        /\ IsFile(disk, Root \o <<C_GitIgnore>>)
        /\ IsFile(disk, Root \o <<C_PrettierIgnore>>)
        /\ IsDir(disk, Root \o <<C_Migrations>>)
        /\ IsDir(disk, Root \o <<C_Programs>>)
        /\ IsDir(disk, ProgramDir)
        /\ IsFile(disk, ProgramDir \o <<C_CargoToml>>)
        /\ disk[ProgramDir \o <<C_CargoToml>>].content
              = CargoTomlContent(names.project_name, args.template)
        /\ IsDir(disk, ProgramDir \o <<C_Src>>)
        /\ IsFile(disk, ProgramDir \o <<C_Src, C_LibRs>>)
        /\ IsDir(disk, Root \o <<C_Tests>>)
        /\ IsFile(disk, Root \o <<C_PackageJson>>)
        /\ IF args.javascript
           THEN /\ disk[Root \o <<C_PackageJson>>].content = <<"package.json", "js">>
                /\ IsFile(disk, Root \o <<C_Migrations, C_DeployJs>>)
           ELSE /\ disk[Root \o <<C_PackageJson>>].content = <<"package.json", "ts">>
                /\ IsFile(disk, Root \o <<C_TsConfig>>)
                /\ IsFile(disk, Root \o <<C_Migrations, C_DeployTs>>)

\* C17's case: a second run, with force and for JavaScript, over the
\* workspace a TypeScript run scaffolded, has returned Ok.
C17_Witness ==
    /\ pc = "done" /\ result = "Ok"
    /\ runs = 1 /\ args.force /\ args.javascript
    /\ names.project_name \in scaffolded
    /\ IsFile(run_start, Root \o <<C_TsConfig>>)
    /\ run_start[Root \o <<C_PackageJson>>].content = <<"package.json", "ts">>
    /\ IsFile(disk, Root \o <<C_Migrations, C_DeployJs>>)

\* Non-empty, and no two entries with the same path.
DistinctPaths(files) ==
    /\ files # <<>>
    /\ \A i, j \in 1..Len(files) : i # j => files[i].path # files[j].path

\* The program id in the keypair cache file of the running init on disk d.
CachedId(d) == d[cwd \o KeypairPath(names.project_name)].content[2]

\* C18: the file list create_program builds for any of the three program
\* templates is non-empty and names no path twice, and so is the list of
\* test files; hence when create_program returns Ok, every entry of its
\* list whose path did not exist before the call is a file holding that
\* entry's content after it: none was skipped because of another entry of
\* the same list.
C18_BatchPathsDistinct ==
    [][ (pc = "program" /\ pc' = "migrations") =>
           /\ \A t \in ProgramTemplates :
                 DistinctPaths(ProgramFiles(cwd, names.project_name, t, CachedId(disk')))
           /\ \A t \in ProgramTemplates :
                 DistinctPaths(TestOps(cwd, names.project_name, t))
           /\ LET files == ProgramFiles(cwd, names.project_name, args.template,
                                        CachedId(disk'))
              IN  \A i \in 1..Len(files) :
                     ~Exists(disk, files[i].path) =>
                        /\ IsFile(disk', files[i].path)
                        /\ disk'[files[i].path].content = files[i].content ]_vars

\* C18's case: create_program has just returned Ok for the MintToken
\* template in a new workspace; the four files of its list are on the disk,
\* each with its own content, and none of them was there when the run began.
C18_Witness ==
    /\ pc = "migrations" /\ args.template = "MintToken"
    /\ LET files == ProgramFiles(cwd, names.project_name, args.template, CachedId(disk))
       IN  /\ Len(files) = 4
           /\ \A i \in 1..Len(files) :
                 /\ ~Exists(run_start, files[i].path)
                 /\ IsFile(disk, files[i].path)
                 /\ disk[files[i].path].content = files[i].content

\* The program id in the [programs.localnet] entry of Anchor.toml, and the
\* one in declare_id! of the program's lib.rs, on disk d.
ManifestId(d) == d[Root \o <<C_AnchorToml>>].content[2]
DeclaredId(d) == d[ProgramDir \o <<C_Src, C_LibRs>>].content[3]

\* C19: within one run of init, once create_program has returned Ok, the
\* program id written into Anchor.toml (looked up from rust_name) and the
\* one in declare_id! of the program source (looked up again from
\* project_name) are the same key, the one init holds and the keypair cache
\* file stores; on a first run and on a force re-run alike.
C19_SameProgramId ==
    (pc \in {"migrations", "config", "install", "git", "finish"} \/ result = "Ok") =>
        /\ program_id \in KeyIds
        /\ ManifestId(disk) = program_id
        /\ DeclaredId(disk) = program_id
        /\ ReadKeypairOk(disk, cwd \o KeypairPath(names.rust_name))
        /\ CachedId(disk) = program_id
        /\ KeypairPath(names.rust_name) = KeypairPath(names.project_name)

\* C19's case: a force re-run over a workspace an earlier run scaffolded has
\* returned Ok; rust_name and project_name differ; Anchor.toml and lib.rs
\* name the key the earlier run had drawn and written into both.
C19_Witness ==
    /\ pc = "done" /\ result = "Ok"
    /\ runs = 1 /\ args.force
    /\ names.project_name \in scaffolded
    /\ names.rust_name # names.project_name
    /\ ManifestId(run_start) = DeclaredId(run_start)
    /\ ManifestId(disk) = ManifestId(run_start)
    /\ DeclaredId(disk) = ManifestId(disk)

====
